---- MODULE Spec2Model ----
(***************************************************************************)
(* Resource-sizing experiment controller (teamholmes/pairing).            *)
(*                                                                         *)
(* The repository holds several variants of one script.  Each variant is  *)
(* modelled as its own control flow, selected by the variable `variant`:  *)
(*   "Iterative"   src/Iterative.py                                        *)
(*   "Reaources5"  src/Reaources5.py                                       *)
(*   "Monday1"     src/Monday1.py                                          *)
(*   "Python"      src/Python.py                                           *)
(*   "Resourcev3"  src/Resourcev3.py (src/Resourcev2.py has the same      *)
(*                 control flow with module-level constants for the       *)
(*                 deployment name and namespace)                         *)
(*                                                                         *)
(* Modelling conventions                                                   *)
(*  - Quantities ("100m", "128Mi") are naturals; 0 stands for a key that   *)
(*    is absent from the requests/limits mapping.                          *)
(*  - A ready time of None is Absent (-1).                                 *)
(*  - Wall-clock time advances only in time.sleep; a cluster call takes    *)
(*    no time.                                                             *)
(*  - An accepted replace or kubectl apply leaves the live spec equal to    *)
(*    the body's; an accepted patch merges the body into the live spec.    *)
(***************************************************************************)
EXTENDS Integers, Sequences, FiniteSets, TLC

VARIABLES
    variant,            \* which script runs
    mainContainer,      \* --main-container / --container argument
    occ,                \* orchestrator rejects a body with a stale resourceVersion
    pc,                 \* position of main(): "start","trial","wait","restore","done"
    i,                  \* index of the current trial (1-based)
    original,           \* the deployment object read at start (Iterative, Reaources5, Monday1)
    original_resources, \* container name -> resources (Python, Resourcev3)
    baseSpec,           \* history: the live spec as it was when the baseline was read
    results,            \* recorded results, in order
    recommended,        \* index into results of the recommendation, 0 = None
    calls,              \* history: cluster calls issued by the controller
    elapsed,            \* time.time() - start_time of the wait in progress
    latest_rs,          \* generation picked by get_latest_replicaset (Resourcev3), 0 = unset
    outcome,            \* "running", "ok", "uncaught" (traceback), "caught" (except branch)
    faults,             \* injected call failures so far
    live,               \* the workload object held by the orchestrator
    gens,               \* replica sets (generations) in the namespace, each with its pod
    pendingRollout      \* the deployment controller has not yet reacted to the last write

vars == <<variant, mainContainer, occ, pc, i, original, original_resources, baseSpec,
          results, recommended, calls, elapsed, latest_rs, outcome, faults,
          live, gens, pendingRollout>>

ctlVars == <<variant, mainContainer, occ, pc, i, original, original_resources, baseSpec,
             results, recommended, calls, elapsed, latest_rs, outcome, faults>>

-----------------------------------------------------------------------------
(* Bounds of the model *)

\* number of variations trialled (a prefix of each script's list)
NumVariations == 2
\* the timeout parameter of the waits (300 in the scripts), scaled down
Timeout == 4
\* injected failures of cluster calls per run
MaxFaults == 1
\* length of the result sequences fed to the recommender on its own
MaxResults == 3

(* Program constants *)

\* None
Absent == -1
\* time.sleep(2) in Iterative, Reaources5, Monday1
SleepLong == 2
\* time.sleep(1) in Python, Resourcev2, Resourcev3
SleepShort == 1

Variants == {"Iterative", "Reaources5", "Monday1", "Python", "Resourcev3"}
ObjectVariants == {"Iterative", "Reaources5", "Monday1"}
PatchVariants == {"Python", "Resourcev3"}

ContainerNames == {"app", "istio-proxy"}

Min(a, b) == IF a <= b THEN a ELSE b
Last(s) == s[Len(s)]

-----------------------------------------------------------------------------
(* Data *)

Res(rc, lc, rm, lm) == [rc |-> rc, lc |-> lc, rm |-> rm, lm |-> lm]
NoRes == Res(0, 0, 0, 0)

NoAnnot == <<0, 0>>

\* the specs a workload may have before the run
BaselineSpecs ==
    { [replicas |-> 1, affinity |-> TRUE, annot |-> NoAnnot,
       containers |-> [n \in ContainerNames |->
                         IF n = "app" THEN Res(150, 300, 64, 128) ELSE Res(30, 60, 0, 0)]],
      [replicas |-> 1, affinity |-> FALSE, annot |-> NoAnnot,
       containers |-> [n \in ContainerNames |->
                         Res(120, 240, 64, 128)]] }

NoSpec == [replicas |-> 0, affinity |-> FALSE, annot |-> NoAnnot,
           containers |-> [n \in ContainerNames |-> NoRes]]
NoDep == [rv |-> 0, spec |-> NoSpec]
NoResources == [n \in ContainerNames |-> NoRes]

\* tested_cpus
tested_cpus == <<50, 100, 200, 300, 400, 500, 750, 1000>>

\* RESOURCE_VARIATIONS of Reaources5.py: "main" and "istio-proxy" entries
Reaources5_VARIATIONS ==
    << [main |-> Res(100, 200, 0, 0), istio |-> Res(50, 100, 0, 0)],
       [main |-> Res(250, 500, 0, 0), istio |-> Res(100, 200, 0, 0)],
       [main |-> Res(500, 1000, 0, 0), istio |-> Res(200, 400, 0, 0)] >>

\* RESOURCE_VARIATIONS of Monday1.py
Monday1_VARIATIONS ==
    << [cpu_request |-> 50, cpu_limit |-> 100, istio_request |-> 10, istio_limit |-> 50],
       [cpu_request |-> 100, cpu_limit |-> 200, istio_request |-> 20, istio_limit |-> 100],
       [cpu_request |-> 200, cpu_limit |-> 400, istio_request |-> 50, istio_limit |-> 200] >>

\* RESOURCE_VARIATIONS of Python.py, Resourcev2.py, Resourcev3.py
Patch_VARIATIONS ==
    << Res(200, 400, 128, 256), Res(300, 600, 192, 384), Res(400, 800, 256, 512) >>

\* how many variations the script holds
ListLen(v) ==
    CASE v = "Iterative" -> Len(tested_cpus)
      [] v = "Reaources5" -> Len(Reaources5_VARIATIONS)
      [] v = "Monday1" -> Len(Monday1_VARIATIONS)
      [] OTHER -> Len(Patch_VARIATIONS)

\* the variations a run trials
NumConfigured(v) == Min(NumVariations, ListLen(v))

\* the trials of a run: Resourcev3 appends the original as one more trial
NumTrials(v) == IF v = "Resourcev3" THEN NumConfigured(v) + 1 ELSE NumConfigured(v)

\* the primary CPU request of the k-th variation ("main_cpu")
main_cpu(v, k) ==
    CASE v = "Iterative" -> tested_cpus[k]
      [] v = "Reaources5" -> Reaources5_VARIATIONS[k].main.rc
      [] v = "Monday1" -> Monday1_VARIATIONS[k].cpu_request
      [] OTHER -> Patch_VARIATIONS[k].rc

-----------------------------------------------------------------------------
(* Computing the spec of a trial *)

\* Iterative.update_resources: a deep copy with every container set to cpu-only
\* requests and limits; istio-proxy gets int(cpu * 0.5)
Iterative_update_resources(deployment, cpu_millicores) ==
    [deployment EXCEPT !.spec.containers =
        [n \in ContainerNames |->
            LET cpu == IF n = "istio-proxy" THEN cpu_millicores \div 2 ELSE cpu_millicores
            IN  Res(cpu, cpu, 0, 0)]]

\* Reaources5.update_resources: a deep copy; istio-proxy and the main container
\* take the variation's entries, any other container is left alone
Reaources5_update_resources(deployment, variation, main_container_name) ==
    [deployment EXCEPT !.spec.containers =
        [n \in ContainerNames |->
            IF n = "istio-proxy" THEN variation.istio
            ELSE IF n = main_container_name THEN variation.main
            ELSE deployment.spec.containers[n]]]

\* Monday1.remove_affinity_spec
remove_affinity_spec(deployment) ==
    [deployment EXCEPT !.spec.affinity = FALSE]

\* Monday1.update_resources: the named container gets cpu-only resources and the
\* pod template gets the proxy.istio.io/config annotation
Monday1_update_resources(deployment, container_name, variation) ==
    [deployment EXCEPT
        !.spec.containers =
            [n \in ContainerNames |->
                IF n = container_name
                THEN Res(variation.cpu_request, variation.cpu_limit, 0, 0)
                ELSE deployment.spec.containers[n]],
        !.spec.annot = <<variation.istio_request, variation.istio_limit>>]

\* the container loop of patch_deployment_resources: every container gets
\* V1ResourceRequirements(requests, limits) from resources_dict.get(name, {})
patch_deployment_resources(deployment, resources_dict) ==
    [deployment EXCEPT !.spec.containers =
        [n \in ContainerNames |-> resources_dict[n]]]

\* store_original_resources: container name -> resources
store_original_resources(deployment) ==
    [n \in ContainerNames |-> deployment.spec.containers[n]]

-----------------------------------------------------------------------------
(* The orchestrator *)

Pod(phase, statuses) == [phase |-> phase, statuses |-> statuses]
NoPod == Pod("none", <<>>)
ReadyPod == Pod("Running", <<TRUE, TRUE>>)

\* the life of a pod: created (no container statuses yet), started, all ready
NextStage(p) ==
    CASE p = NoPod -> Pod("Pending", <<>>)
      [] p = Pod("Pending", <<>>) -> Pod("Running", <<TRUE, FALSE>>)
      [] OTHER -> ReadyPod

Gen(owner, created, replicas, pod) ==
    [owner |-> owner, created |-> created, replicas |-> replicas, pod |-> pod]

\* the workload's uid, and that of another deployment of the namespace
DeploymentUid == "dep"
OtherUid == "other"

OwnedGens == {g \in 1..Len(gens) : gens[g].owner = DeploymentUid}

MaxCreated(S) == CHOOSE c \in {gens[g].created : g \in S} :
                    \A g \in S : gens[g].created <= c

\* the live generation: the most recently created one the workload owns
LiveGen == CHOOSE g \in OwnedGens : gens[g].created = MaxCreated(OwnedGens)

AllReady(p) == \A k \in 1..Len(p.statuses) : p.statuses[k]

\* a pod that is Running and reports every one of its containers ready
TrulyReady(p) == p.phase = "Running" /\ Len(p.statuses) > 0 /\ AllReady(p)

\* list_namespaced_pod with the deployment's selector: the pods of every
\* generation of the workload
PodsOfDeployment == {g \in OwnedGens : gens[g].pod # NoPod}

\* list_namespaced_pod with a replica set's selector: the pods of that generation
PodsOfGen(g) == IF gens[g].pod # NoPod THEN {g} ELSE {}

\* the pod template of a spec: everything but the replica count
Template(spec) == [spec EXCEPT !.replicas = 0]

\* the outcomes a read may have
ReadOutcomes == {"ok"} \cup (IF faults < MaxFaults THEN {"error"} ELSE {})

\* the outcomes a write carrying resourceVersion rv may have: a stale version is
\* a conflict when the orchestrator checks it; any write may meet a concurrent
\* modification (conflict) or a transport failure (error)
Stale(rv) == occ /\ rv # live.rv
WriteOutcomes(rv) ==
    (IF Stale(rv) THEN {"conflict"} ELSE {"ok"})
    \cup (IF faults < MaxFaults THEN {"conflict", "error"} ELSE {})

Injected(rv, r) == r # "ok" /\ ~(r = "conflict" /\ Stale(rv))

\* the orchestrator after a write that leaves it with `spec`
Accept(spec) ==
    /\ live' = [live EXCEPT !.rv = live.rv + 1, !.spec = spec]
    /\ pendingRollout' = (pendingRollout \/ Template(spec) # Template(live.spec))
    /\ UNCHANGED gens

\* replace_namespaced_deployment, kubectl apply: the body's spec takes the place
\* of the live one
Replaced(spec) == spec

\* patch_namespaced_deployment with an object as its body is a strategic merge
\* patch: a requests/limits key the body does not carry keeps its live value
MergeRes(liveRes, bodyRes) ==
    Res(IF bodyRes.rc = 0 THEN liveRes.rc ELSE bodyRes.rc,
        IF bodyRes.lc = 0 THEN liveRes.lc ELSE bodyRes.lc,
        IF bodyRes.rm = 0 THEN liveRes.rm ELSE bodyRes.rm,
        IF bodyRes.lm = 0 THEN liveRes.lm ELSE bodyRes.lm)

Patched(spec) ==
    [spec EXCEPT !.containers =
        [n \in ContainerNames |-> MergeRes(live.spec.containers[n], spec.containers[n])]]

Call(op, kind, trial, spec, res) ==
    [op |-> op, kind |-> kind, trial |-> trial, spec |-> spec, res |-> res]

-----------------------------------------------------------------------------
(* The recommendation *)

Present(rs) == {k \in 1..Len(rs) : rs[k].t # Absent}

\* min(...) over result indices: the first index with the least key
FirstMin(S, key(_)) ==
    CHOOSE k \in S : \A j \in S : key(k) < key(j) \/ (key(k) = key(j) /\ k <= j)

\* Iterative.main: the lowest main_cpu among the results within 5% of the fastest
\* (r <= fastest * 1.05, in exact arithmetic)
Iterative_recommend(v, rs) ==
    LET valid == Present(rs)
    IN  IF valid = {} THEN 0
        ELSE LET fastest == rs[FirstMin(valid, LAMBDA k : rs[k].t)].t
                 within == {k \in valid : rs[k].t * 100 <= fastest * 105}
             IN  FirstMin(within, LAMBDA k : main_cpu(v, rs[k].v))

\* Reaources5.main: the fastest of the results whose ready time is truthy
Reaources5_recommend(rs) ==
    LET truthy == {k \in 1..Len(rs) : rs[k].t # Absent /\ rs[k].t # 0}
    IN  IF truthy = {} THEN 0 ELSE FirstMin(truthy, LAMBDA k : rs[k].t)

\* Monday1.main: the fastest of the results whose ready time is not None
Monday1_best(rs) ==
    IF Present(rs) = {} THEN 0 ELSE FirstMin(Present(rs), LAMBDA k : rs[k].t)

\* the recommendation a script computes (Python and Resourcev3 compute none)
Recommend(v, rs) ==
    CASE v = "Iterative" -> Iterative_recommend(v, rs)
      [] v = "Reaources5" -> Reaources5_recommend(rs)
      [] v = "Monday1" -> Monday1_best(rs)
      [] OTHER -> 0

-----------------------------------------------------------------------------
(* main() *)

\* the replica sets of the namespace before the run: the workload's own with its
\* pod ready beside another deployment's, or (the deployment controller has not
\* created one yet) only the other deployment's
InitialGens ==
    { << Gen(DeploymentUid, 1, 1, ReadyPod), Gen(OtherUid, 2, 1, ReadyPod) >>,
      << Gen(OtherUid, 2, 1, ReadyPod) >> }

Init ==
    /\ variant \in Variants
    /\ mainContainer \in {"app", "web"}
    /\ (variant \in PatchVariants => mainContainer = "app")
    /\ occ \in BOOLEAN
    /\ pc = "start"
    /\ i = 0
    /\ original = NoDep
    /\ original_resources = NoResources
    /\ baseSpec = NoSpec
    /\ results = <<>>
    /\ recommended = 0
    /\ calls = <<>>
    /\ elapsed = 0
    /\ latest_rs = 0
    /\ outcome = "running"
    /\ faults = 0
    /\ gens \in InitialGens
    /\ \E spec \in BaselineSpecs :
         LET n == IF OwnedGens = {} THEN 0 ELSE spec.replicas IN
         live = [rv |-> 1, spec |-> spec,
                 status |-> [replicas |-> n, available |-> n, ready |-> n]]
    /\ pendingRollout = (OwnedGens = {})

\* how an exception leaves main(): Python and Resourcev3 wrap main in try/except
\* and print it; the other scripts let it propagate
Raised == IF variant \in PatchVariants THEN "caught" ELSE "uncaught"

\* the exit status of the process: an exception that propagates out of main()
\* ends it with a traceback and status 1; after an except branch that prints
\* the exception, main() returns and the status is 0
ExitStatus == IF outcome = "uncaught" THEN 1 ELSE 0

\* an exception raised by a cluster call ends the run
Abort(newCalls) ==
    /\ pc' = "done"
    /\ outcome' = Raised
    /\ calls' = newCalls
    /\ faults' = faults + 1
    /\ UNCHANGED <<live, gens, pendingRollout>>

\* stale-version conflicts are not injected: the fault count stays
AbortWrite(newCalls, rv, r) ==
    /\ pc' = "done"
    /\ outcome' = Raised
    /\ calls' = newCalls
    /\ faults' = IF Injected(rv, r) THEN faults + 1 ELSE faults
    /\ UNCHANGED <<live, gens, pendingRollout>>

\* the first read of the workload: the baseline
Capture ==
    /\ pc = "start"
    /\ \E r \in ReadOutcomes :
        LET c == Append(calls, Call("get", "capture", 0, live.spec, r)) IN
        IF r = "ok"
        THEN /\ original' = IF variant \in ObjectVariants
                            THEN [rv |-> live.rv, spec |-> live.spec] ELSE original
             /\ original_resources' = IF variant \in PatchVariants
                                      THEN store_original_resources(live)
                                      ELSE original_resources
             /\ baseSpec' = live.spec
             /\ pc' = "trial"
             /\ i' = 1
             /\ calls' = c
             /\ UNCHANGED <<outcome, faults, live, gens, pendingRollout>>
        ELSE /\ Abort(c)
             /\ UNCHANGED <<original, original_resources, baseSpec, i>>
    /\ UNCHANGED <<variant, mainContainer, occ, results, recommended, elapsed, latest_rs>>

\* the object a trial of Iterative, Reaources5 or Monday1 writes
TrialObject(k) ==
    CASE variant = "Iterative" ->
            Iterative_update_resources(original, tested_cpus[k])
      [] variant = "Reaources5" ->
            Reaources5_update_resources(original, Reaources5_VARIATIONS[k], mainContainer)
      [] OTHER ->
            Monday1_update_resources(remove_affinity_spec(original), mainContainer,
                                     Monday1_VARIATIONS[k])

\* Resourcev3: the last trial is the original
IsOriginalTrial(k) == variant = "Resourcev3" /\ k = NumTrials(variant)

\* a resources dict that names the application container only: the patch then
\* finds no entry for the sidecar and gives it empty requests and limits
TrialResources_main_only(k) ==
    IF IsOriginalTrial(k) THEN original_resources
    ELSE [n \in ContainerNames |-> IF n = "app" THEN Patch_VARIATIONS[k] ELSE NoRes]

\* resource_config / resources_for_all of a trial of Python or Resourcev3
TrialResources(k) ==
    IF IsOriginalTrial(k) THEN original_resources
    ELSE [n \in ContainerNames |-> Patch_VARIATIONS[k]]

TrialKind(k) == IF IsOriginalTrial(k) THEN "original_trial" ELSE "variation"

\* after an accepted trial write: Resourcev3 next picks the replica set, the
\* others start polling
AfterTrialWrite ==
    /\ pc' = IF variant = "Resourcev3" THEN "pick" ELSE "wait"
    /\ elapsed' = 0

\* an update that works on the object it is handed: the caller's object is the
\* updated one afterwards
updated_in_place(deployment, new_spec) == new_spec

\* the caller's object after update_resources: the update works on a deepcopy,
\* so the object handed in is as it was
after_update(deployment, new_spec) == deployment

\* Iterative, Reaources5, Monday1: compute the trial's object from the baseline
\* and write it
ApplyObject ==
    /\ pc = "trial"
    /\ variant \in ObjectVariants
    /\ LET body == TrialObject(i) IN
       \E r \in WriteOutcomes(body.rv) :
        LET c == Append(calls, Call("put", "variation", i, body.spec, r)) IN
        IF r = "ok"
        THEN /\ Accept(Replaced(body.spec))
             /\ AfterTrialWrite
             /\ calls' = c
             /\ UNCHANGED <<outcome, faults>>
        ELSE /\ AbortWrite(c, body.rv, r)
             /\ UNCHANGED elapsed
    /\ original' = after_update(original, TrialObject(i))
    /\ UNCHANGED <<variant, mainContainer, occ, i, original_resources, baseSpec,
                   results, recommended, latest_rs>>

\* Python, Resourcev3: reload the deployment, set every container's resources
\* and patch
ApplyPatch ==
    /\ pc = "trial"
    /\ variant \in PatchVariants
    /\ \E rr \in ReadOutcomes :
        LET c1 == Append(calls, Call("get", "reload", i, live.spec, rr)) IN
        IF rr # "ok"
        THEN /\ Abort(c1)
             /\ UNCHANGED elapsed
        ELSE LET deployment == [rv |-> live.rv, spec |-> live.spec]
                 body == patch_deployment_resources(deployment, TrialResources(i))
             IN  \E r \in WriteOutcomes(body.rv) :
                   LET c2 == Append(c1, Call("put", TrialKind(i), i, body.spec, r)) IN
                   IF r = "ok"
                   THEN /\ Accept(Patched(body.spec))
                        /\ AfterTrialWrite
                        /\ calls' = c2
                        /\ UNCHANGED <<outcome, faults>>
                   ELSE /\ AbortWrite(c2, body.rv, r)
                        /\ UNCHANGED elapsed
    /\ UNCHANGED <<variant, mainContainer, occ, i, original, original_resources, baseSpec,
                   results, recommended, latest_rs>>

\* a wait returned t when its clock showed `now`: append the result and go on to
\* the next trial, or to the restoration after the last one
Finish(t, now) ==
    /\ results' = Append(results, [v |-> i, t |-> t])
    /\ IF i < NumTrials(variant)
       THEN pc' = "trial" /\ i' = i + 1
       ELSE pc' = "restore" /\ i' = i
    /\ elapsed' = now
    /\ UNCHANGED <<latest_rs, outcome, faults, calls, live, gens, pendingRollout>>

\* a wait that swallows the exception of a poll and takes the tick for ready
poll_error_taken_for_ready(kind) ==
    /\ results' = Append(results, [v |-> i, t |-> elapsed])
    /\ calls' = Append(calls, Call("get", kind, i, live.spec, "error"))
    /\ faults' = faults + 1
    /\ IF i < NumTrials(variant)
       THEN pc' = "trial" /\ i' = i + 1
       ELSE pc' = "restore" /\ i' = i
    /\ UNCHANGED <<elapsed, latest_rs, outcome, live, gens, pendingRollout>>

\* a poll raised
PollRaised(kind) ==
    /\ Abort(Append(calls, Call("get", kind, i, live.spec, "error")))
    /\ UNCHANGED <<results, i, elapsed, latest_rs>>

\* the waits of Python and Resourcev3 have no timeout; the model stops counting
\* their elapsed time here
ElapsedCap == Timeout

\* the most recent replica set of the namespace, whoever owns it
latest_of_namespace ==
    IF Len(gens) = 0 THEN 0
    ELSE CHOOSE g \in 1..Len(gens) :
            /\ \A h \in 1..Len(gens) : gens[h].created <= gens[g].created
            /\ \A h \in 1..Len(gens) : gens[h].created = gens[g].created => g <= h

\* get_latest_replicaset: of the replica sets owned by the deployment, the first
\* of those created last; 0 when it raises for want of an owned one
get_latest_replicaset ==
    IF OwnedGens = {} THEN 0
    ELSE CHOOSE g \in OwnedGens :
            /\ gens[g].created = MaxCreated(OwnedGens)
            /\ \A h \in OwnedGens : gens[h].created = gens[g].created => g <= h

\* Resourcev3.wait_for_replicaset_pods_ready, before its loop: pick the latest
\* replica set and start the clock
PickReplicaSet ==
    /\ pc = "pick"
    /\ \E r \in ReadOutcomes :
        IF r # "ok"
        THEN /\ Abort(Append(calls, Call("get", "replicasets", i, live.spec, r)))
             /\ UNCHANGED <<latest_rs, elapsed>>
        ELSE IF get_latest_replicaset = 0
        THEN /\ pc' = "done"
             /\ outcome' = Raised
             /\ calls' = Append(calls, Call("get", "replicasets", i, live.spec, "notfound"))
             /\ UNCHANGED <<latest_rs, elapsed, faults, live, gens, pendingRollout>>
        ELSE /\ latest_rs' = get_latest_replicaset
             /\ elapsed' = 0
             /\ pc' = "wait"
             /\ UNCHANGED <<outcome, calls, faults, live, gens, pendingRollout>>
    /\ UNCHANGED <<variant, mainContainer, occ, i, original, original_resources, baseSpec,
                   results, recommended>>

\* a loop bounded by a number of polls in place of a number of seconds
within_timeout_polls(e) == e < Timeout * SleepLong

\* the loop condition of wait_for_pods_ready: time.time() - start_time < timeout
within_timeout(e) == e < Timeout

\* Iterative / Reaources5 wait_for_pods_ready: one turn of the loop
PollPods ==
    /\ pc = "wait"
    /\ variant \in {"Iterative", "Reaources5"}
    /\ IF ~within_timeout(elapsed)
       THEN Finish(Absent, elapsed)
       ELSE \E r \in ReadOutcomes :
              IF r # "ok" THEN PollRaised("pods")
              ELSE LET ready_pods == {g \in PodsOfDeployment : AllReady(gens[g].pod)} IN
                   IF Cardinality(ready_pods) >= original.spec.replicas
                   THEN Finish(elapsed, elapsed)
                   ELSE /\ elapsed' = elapsed + SleepLong
                        /\ UNCHANGED <<results, i, pc, latest_rs, outcome, faults, calls,
                                       live, gens, pendingRollout>>
    /\ UNCHANGED <<variant, mainContainer, occ, original, original_resources, baseSpec,
                   recommended>>

\* the check that ends wait_for_ready: time.time() - start > timeout
timed_out(now) == now > Timeout

\* Monday1.wait_for_ready: sleep, read the status counters, then look at the clock
PollStatus ==
    /\ pc = "wait"
    /\ variant = "Monday1"
    /\ LET now == elapsed + SleepLong IN
       \E r \in ReadOutcomes :
          IF r # "ok" THEN PollRaised("status")
          ELSE LET desired == live.status.replicas
                   available == live.status.available
               IN  IF desired = available /\ desired > 0
                   THEN Finish(now, now)
                   ELSE IF timed_out(now)
                   THEN Finish(Absent, now)
                   ELSE /\ elapsed' = now
                        /\ UNCHANGED <<results, i, pc, latest_rs, outcome, faults, calls,
                                       live, gens, pendingRollout>>
    /\ UNCHANGED <<variant, mainContainer, occ, original, original_resources, baseSpec,
                   recommended>>

\* Python.wait_for_pods_ready: read the deployment and compare ready_replicas
\* with spec.replicas; no timeout
PollDeployment ==
    /\ pc = "wait"
    /\ variant = "Python"
    /\ \E r \in ReadOutcomes :
          IF r # "ok" THEN PollRaised("status")
          ELSE IF live.status.ready = live.spec.replicas
               THEN Finish(elapsed, elapsed)
               ELSE /\ pc' = "sleep"
                    /\ UNCHANGED <<results, i, elapsed, latest_rs, outcome, faults, calls,
                                   live, gens, pendingRollout>>
    /\ UNCHANGED <<variant, mainContainer, occ, original, original_resources, baseSpec,
                   recommended>>

\* Resourcev3.wait_for_replicaset_pods_ready: one turn of the loop over the pods
\* of the replica set picked before the loop; no timeout
PollReplicaSet ==
    /\ pc = "wait"
    /\ variant = "Resourcev3"
    /\ \E r \in ReadOutcomes :
          IF r # "ok" THEN PollRaised("pods")
          ELSE LET ready_pods == {g \in PodsOfGen(latest_rs) :
                                     AllReady(gens[g].pod) /\ gens[g].pod.phase = "Running"}
               IN  IF Cardinality(ready_pods) >= gens[latest_rs].replicas
                   THEN Finish(elapsed, elapsed)
                   ELSE /\ pc' = "sleep"
                        /\ UNCHANGED <<elapsed, outcome, faults, calls,
                                       live, gens, pendingRollout>>
                        /\ UNCHANGED <<results, i, latest_rs>>
    /\ UNCHANGED <<variant, mainContainer, occ, original, original_resources, baseSpec,
                   recommended>>

\* time.sleep(1) of the loops of Python and Resourcev3
Sleep ==
    /\ pc = "sleep"
    /\ elapsed' = Min(elapsed + SleepShort, ElapsedCap)
    /\ pc' = "wait"
    /\ UNCHANGED <<variant, mainContainer, occ, i, original, original_resources, baseSpec,
                   results, recommended, calls, latest_rs, outcome, faults,
                   live, gens, pendingRollout>>

\* the run ended normally
Completed ==
    /\ pc' = "done"
    /\ outcome' = "ok"
    /\ UNCHANGED faults

\* Iterative, Reaources5, Monday1: write the original object back.  Monday1
\* picks its best result before the write, the other two after it
RestoreObject ==
    /\ pc = "restore"
    /\ variant \in ObjectVariants
    /\ \E r \in WriteOutcomes(original.rv) :
        LET c == Append(calls, Call("put", "restore", 0, original.spec, r)) IN
        IF r = "ok"
        THEN /\ Accept(Replaced(original.spec))
             /\ Completed
             /\ calls' = c
             /\ recommended' = Recommend(variant, results)
        ELSE /\ AbortWrite(c, original.rv, r)
             /\ recommended' = IF variant = "Monday1" THEN Recommend(variant, results) ELSE 0
    /\ UNCHANGED <<variant, mainContainer, occ, i, original, original_resources, baseSpec,
                   results, elapsed, latest_rs>>

\* Python, Resourcev3: reload the deployment and patch the stored resources back
RestorePatch ==
    /\ pc = "restore"
    /\ variant \in PatchVariants
    /\ \E rr \in ReadOutcomes :
        LET c1 == Append(calls, Call("get", "reload", 0, live.spec, rr)) IN
        IF rr # "ok"
        THEN Abort(c1)
        ELSE LET deployment == [rv |-> live.rv, spec |-> live.spec]
                 body == patch_deployment_resources(deployment, original_resources)
             IN  \E r \in WriteOutcomes(body.rv) :
                   LET c2 == Append(c1, Call("put", "restore", 0, body.spec, r)) IN
                   IF r = "ok"
                   THEN /\ Accept(Patched(body.spec))
                        /\ Completed
                        /\ calls' = c2
                   ELSE AbortWrite(c2, body.rv, r)
    /\ UNCHANGED <<variant, mainContainer, occ, i, original, original_resources, baseSpec,
                   results, recommended, elapsed, latest_rs>>

-----------------------------------------------------------------------------
(* The cluster while the controller waits *)

Waiting == pc \in {"pick", "wait", "sleep"}

AllCreated == {gens[g].created : g \in 1..Len(gens)}
Newest == CHOOSE c \in AllCreated : \A d \in AllCreated : d <= c

\* the deployment controller creates the generation of the written template;
\* of the older generations only the one that was live keeps its pod
CreateGeneration ==
    /\ Waiting
    /\ pendingRollout
    /\ LET kept == [g \in 1..Len(gens) |->
                     IF gens[g].owner = DeploymentUid /\ g # LiveGen
                     THEN [gens[g] EXCEPT !.pod = NoPod] ELSE gens[g]]
       IN  gens' = Append(kept, Gen(DeploymentUid, Newest + 1, live.spec.replicas, NoPod))
    /\ pendingRollout' = FALSE
    /\ UNCHANGED <<live>>
    /\ UNCHANGED ctlVars

\* the pod of the live generation comes up, one stage at a time
PodProgress ==
    /\ Waiting
    /\ OwnedGens # {}
    /\ gens[LiveGen].pod # ReadyPod
    /\ gens' = [gens EXCEPT ![LiveGen].pod = NextStage(@)]
    /\ UNCHANGED <<live, pendingRollout>>
    /\ UNCHANGED ctlVars

\* the pod of an older generation is removed
PodTerminate ==
    /\ Waiting
    /\ OwnedGens # {}
    /\ \E g \in OwnedGens \ {LiveGen} :
        /\ gens[g].pod # NoPod
        /\ gens' = [gens EXCEPT ![g].pod = NoPod]
    /\ UNCHANGED <<live, pendingRollout>>
    /\ UNCHANGED ctlVars

\* the deployment controller brings the status counters up to date (followed
\* for the scripts that read them)
SyncStatus ==
    /\ Waiting
    /\ variant \in {"Monday1", "Python"}
    /\ LET n == Cardinality(PodsOfDeployment)
           a == Cardinality({g \in PodsOfDeployment : TrulyReady(gens[g].pod)})
           st == [replicas |-> n, available |-> a, ready |-> a]
       IN  /\ st # live.status
           /\ live' = [live EXCEPT !.status = st]
    /\ UNCHANGED <<gens, pendingRollout>>
    /\ UNCHANGED ctlVars

Next ==
    \/ Capture
    \/ ApplyObject
    \/ ApplyPatch
    \/ PickReplicaSet
    \/ PollPods
    \/ PollStatus
    \/ PollDeployment
    \/ PollReplicaSet
    \/ Sleep
    \/ RestoreObject
    \/ RestorePatch
    \/ CreateGeneration
    \/ PodProgress
    \/ PodTerminate
    \/ SyncStatus

Spec == Init /\ [][Next]_vars

\* the steps of the script itself
Controller ==
    \/ Capture
    \/ ApplyObject
    \/ ApplyPatch
    \/ PickReplicaSet
    \/ PollPods
    \/ PollStatus
    \/ PollDeployment
    \/ PollReplicaSet
    \/ Sleep
    \/ RestoreObject
    \/ RestorePatch

\* the script keeps running: it is a single thread that nothing suspends but
\* its own sleeps.  Nothing is assumed of the cluster.
FairSpec == Spec /\ WF_vars(Controller)

-----------------------------------------------------------------------------
(* The recommendation on its own, over result sequences of any content *)

\* ready times (seconds) the result sequences are drawn from
ReadyTimes == {Absent, 0, 20, 21, 40}

ResultSeqs(v) ==
    UNION { [1..n -> ReadyTimes] : n \in 0..Min(MaxResults, ListLen(v)) }

\* the variations the results describe, by their place in the script's table:
\* the k-th result describes the k-th entry, or (a list of variations that
\* repeats a configuration) an entry that came before
VariationSeqs(n) == {vs \in [1..n -> 1..n] : \A k \in 1..n : vs[k] <= k}

InitRec ==
    /\ variant \in {"Iterative", "Reaources5", "Monday1"}
    /\ \E ts \in ResultSeqs(variant) : \E vs \in VariationSeqs(Len(ts)) :
         results = [k \in 1..Len(ts) |-> [v |-> vs[k], t |-> ts[k]]]
    /\ pc = "results"
    /\ mainContainer = "app"
    /\ occ = FALSE
    /\ i = 0
    /\ original = NoDep
    /\ original_resources = NoResources
    /\ baseSpec = NoSpec
    /\ recommended = 0
    /\ calls = <<>>
    /\ elapsed = 0
    /\ latest_rs = 0
    /\ outcome = "running"
    /\ faults = 0
    /\ live = [rv |-> 1, spec |-> NoSpec,
               status |-> [replicas |-> 0, available |-> 0, ready |-> 0]]
    /\ gens = <<>>
    /\ pendingRollout = FALSE

\* the recommendation of the script, applied to the results
RecommendStep ==
    /\ pc = "results"
    /\ recommended' = Recommend(variant, results)
    /\ pc' = "recommended"
    /\ UNCHANGED <<variant, mainContainer, occ, i, original, original_resources, baseSpec,
                   results, calls, elapsed, latest_rs, outcome, faults,
                   live, gens, pendingRollout>>

SpecRec == InitRec /\ [][RecommendStep]_vars

-----------------------------------------------------------------------------
(* Properties *)

Puts == {k \in 1..Len(calls) : calls[k].op = "put"}
AcceptedPuts == {k \in Puts : calls[k].res = "ok"}
VariationPuts == {k \in Puts : calls[k].kind = "variation"}
LastPut == CHOOSE k \in Puts : \A j \in Puts : j <= k
Exited == pc = "done"

\* C1: whenever the controller has exited after a variation write was accepted,
\* the last write it issued is the restoration of the captured baseline.
C1_RestorationOnEveryExit ==
    (Exited /\ VariationPuts \cap AcceptedPuts # {})
        => (calls[LastPut].kind = "restore" /\ calls[LastPut].spec = baseSpec)

\* C2: whenever the controller has exited after capturing the baseline, the
\* result sequence has one entry per trial of the run.
C2_ResultPerVariation ==
    (Exited /\ i >= 1) => Len(results) = NumTrials(variant)

\* writes of the original configuration
OriginalPuts == {k \in Puts : calls[k].spec = baseSpec}

\* C3: in a run that ended normally, exactly one of the writes carries the
\* original configuration, and that one is the last write.  (The runs that end
\* in an error are those of C1.)
C3_OneOriginalWriteLast ==
    (Exited /\ outcome = "ok") => OriginalPuts = {LastPut}

\* apply(baseline, V_k) of the running script: its own computation of a trial's
\* spec, started from the spec read at capture
ApplyToBaseline(k) ==
    LET base == [rv |-> 0, spec |-> baseSpec] IN
    CASE variant = "Iterative" ->
            Iterative_update_resources(base, tested_cpus[k]).spec
      [] variant = "Reaources5" ->
            Reaources5_update_resources(base, Reaources5_VARIATIONS[k], mainContainer).spec
      [] variant = "Monday1" ->
            Monday1_update_resources(remove_affinity_spec(base), mainContainer,
                                     Monday1_VARIATIONS[k]).spec
      [] OTHER ->
            patch_deployment_resources(base, [n \in ContainerNames |-> Patch_VARIATIONS[k]]).spec

\* C4: the spec of every variation write is apply(baseline, V) for its variation
\* V, whatever was written before it.
C4_VariationFromBaseline ==
    \A k \in VariationPuts : calls[k].spec = ApplyToBaseline(calls[k].trial)

\* a second variation was written after a first one had been accepted
C4_Witness ==
    \E j, k \in VariationPuts :
        /\ j < k
        /\ calls[j].res = "ok"
        /\ calls[j].spec # calls[k].spec
        /\ calls[j].spec # baseSpec

\* a step in which a wait reports Ready: a present ready time is appended
ReadyReported ==
    /\ Len(results') = Len(results) + 1
    /\ results'[Len(results')].t # Absent

\* the pods of the live generation that are Running with every container ready
\* are at least as many as that generation wants
LiveGenerationReady ==
    /\ OwnedGens # {}
    /\ Cardinality({g \in {LiveGen} : TrulyReady(gens[g].pod)}) >= gens[LiveGen].replicas

\* C5: a wait reports Ready only in a state where the live generation has its
\* desired number of Running, all-containers-ready pods.
C5_ReadyOnlyWhenLiveGenerationReady ==
    [][ReadyReported => LiveGenerationReady]_vars

\* a wait has just returned (position between the wait and the next write)
Returned == pc \in {"trial", "restore"} /\ Len(results) > 0

\* C6: a wait that returns the timed-out outcome returns it at an elapsed time
\* of at least the timeout and at most the timeout plus one poll interval.
C6_TimedOutWithinOneInterval ==
    (Returned /\ Last(results).t = Absent)
        => (Timeout <= elapsed /\ elapsed <= Timeout + SleepLong)

\* a wait timed out in each of the two ways the scripts time out
C6_Witness ==
    /\ Returned
    /\ Last(results).t = Absent
    /\ variant = "Monday1"
    /\ elapsed > Timeout

\* C7: every run terminates.
C7_RunTerminates == <>Exited

\* the cost of a result: the primary CPU request of its variation
Cost(k) == main_cpu(variant, results[k].v)

Fastest == results[FirstMin(Present(results), LAMBDA k : results[k].t)].t
WithinTolerance == {k \in Present(results) : results[k].t * 100 <= Fastest * 105}

\* C8: when some result has a ready time, the recommended result is within 5% of
\* the fastest and no result within that tolerance costs strictly less.  (Stated
\* for ready times above zero; a ready time of zero is the case of C14.)
C8_CheapestWithinTolerance ==
    (pc = "recommended" /\ Present(results) # {} /\ \A k \in Present(results) : results[k].t > 0)
        => /\ recommended \in WithinTolerance
           /\ \A k \in WithinTolerance : ~(Cost(k) < Cost(recommended))

\* C9: after a run in which every cluster call succeeded, the live spec is the
\* spec read at capture.
C9_BaselineRestored ==
    (Exited /\ outcome = "ok") => live.spec = baseSpec

\* C10: once the controller has exited, every write that was rejected with a
\* conflict was followed by a re-fetch and a retry of the same write.
C10_ConflictRetried ==
    Exited =>
        \A k \in Puts :
            calls[k].res = "conflict" =>
                \E g, j \in 1..Len(calls) :
                    /\ k < g /\ g < j
                    /\ calls[g].op = "get"
                    /\ calls[j].op = "put"
                    /\ calls[j].kind = calls[k].kind
                    /\ calls[j].trial = calls[k].trial

\* restoration writes that were not accepted
FailedRestores == {k \in Puts : calls[k].kind = "restore" /\ calls[k].res # "ok"}

\* C11: a run whose restoration write failed does not exit reporting a normal
\* outcome: the process ends with a non-zero status.
C11_RestorationFailureSurfaced ==
    (Exited /\ FailedRestores # {}) => ExitStatus # 0

\* calls that failed because the workload (the first read) or its replica set
\* does not exist
NotFoundFailures ==
    {k \in 1..Len(calls) :
        \/ calls[k].res = "notfound"
        \/ (calls[k].kind = "capture" /\ calls[k].res # "ok")}

\* C12: when a call fails because the workload or its generation does not
\* exist, no write has been issued before it.
C12_NotFoundBeforeAnyWrite ==
    \A k \in NotFoundFailures : \A j \in Puts : ~(j < k)

\* the k-th variation of the run names no container of the workload: Monday1
\* names the --container argument, Reaources5 the --main-container argument and
\* istio-proxy; Iterative and the patching scripts address every container the
\* workload has
NamesNoContainer(k) ==
    CASE variant = "Monday1" -> mainContainer \notin ContainerNames
      [] variant = "Reaources5" ->
            mainContainer \notin ContainerNames /\ "istio-proxy" \notin ContainerNames
      [] OTHER -> FALSE

\* C13: a variation that names no container of the workload is skipped (nothing
\* is written for it) and its result, once recorded, is absent.
C13_UnknownContainerSkipsTrial ==
    \A k \in 1..NumConfigured(variant) :
        NamesNoContainer(k) =>
            /\ \A j \in VariationPuts : calls[j].trial # k
            /\ (k <= Len(results) => results[k].t = Absent)

\* C14: the recommendation is None exactly when no result has a ready time; a
\* ready time of zero is a ready time.
C14_AbsentIffNoReadyTime ==
    pc = "recommended" => ((recommended = 0) <=> (Present(results) = {}))

\* the containers a variation of the running script names: the main container
\* and istio-proxy (Iterative: main_cpu and istio_cpu; Reaources5: "main" and
\* "istio-proxy"), the --container argument (Monday1), or every container whose
\* resources were stored (Python, Resourcev3)
NamedContainers ==
    CASE variant \in {"Iterative", "Reaources5"} -> {mainContainer, "istio-proxy"}
      [] variant = "Monday1" -> {mainContainer}
      [] OTHER -> ContainerNames

\* C15: in the spec written for a variation, every container the variation does
\* not name has the requests and limits it has in the baseline.
C15_UnnamedContainersUntouched ==
    \A k \in VariationPuts :
        \A n \in ContainerNames \ NamedContainers :
            calls[k].spec.containers[n] = baseSpec.containers[n]

\* C16: the spec written for a variation equals the baseline in everything but
\* the containers' requests and limits (replica count, pod-template annotation,
\* affinity).
C16_OnlyResourcesDiffer ==
    \A k \in VariationPuts :
        [calls[k].spec EXCEPT !.containers = baseSpec.containers] = baseSpec

\* C17: from capture on, the stored baseline (the original object, or the
\* stored container resources) is what was read at capture, however many
\* variations have been computed and written.
C17_BaselineImmutable ==
    i >= 1 =>
        /\ (variant \in ObjectVariants => original.spec = baseSpec)
        /\ (variant \in PatchVariants => original_resources = baseSpec.containers)

\* two variations were computed from the stored object and trialled
C17_Witness ==
    /\ variant \in ObjectVariants
    /\ pc = "restore"
    /\ Len(results) >= 2
    /\ Cardinality({calls[k].spec : k \in VariationPuts}) >= 2

\* C18: at every poll tick of the wait on a generation, the generation whose
\* pods and replica count are evaluated is the workload's live generation at
\* that tick.
C18_FreshGenerationEachTick ==
    (variant = "Resourcev3" /\ pc = "wait") => latest_rs = get_latest_replicaset

\* C19: a call of get_latest_replicaset that returns, returns a generation the
\* workload owns whose creation timestamp is the greatest among the owned ones;
\* when the workload owns none, the call raises and the run ends in an error.
C19_LatestOwnedReplicaSet ==
    [][pc = "pick" /\ pc' # "pick" =>
        /\ pc' = "wait" =>
              /\ latest_rs' \in OwnedGens
              /\ gens[latest_rs'].owner = DeploymentUid
              /\ \A g \in OwnedGens : gens[g].created <= gens[latest_rs'].created
        /\ OwnedGens = {} => (pc' = "done" /\ outcome' # "ok")]_vars

\* the wait holds an owned generation while another workload's is more recent
C19_Witness ==
    /\ variant = "Resourcev3"
    /\ pc = "wait"
    /\ latest_rs \in OwnedGens
    /\ \E g \in 1..Len(gens) :
          gens[g].owner = OtherUid /\ gens[g].created > gens[latest_rs].created

\* C20: in every step the result sequence keeps its entries and at most grows
\* at its end; its k-th entry describes the k-th configured variation; and an
\* entry is appended with an absent ready time only by a wait whose clock has
\* reached the timeout.
C20_ResultsOrderedAppendOnly ==
    [][/\ Len(results') >= Len(results)
       /\ \A k \in 1..Len(results) : results'[k] = results[k]
       /\ \A k \in 1..Len(results') :
             results'[k].v = k /\ k <= NumConfigured(variant)
       /\ (Len(results') > Len(results) /\ Last(results').t = Absent)
             => elapsed' >= Timeout]_vars

\* the results within tolerance that share the lowest cost
LowestCostWithinTolerance ==
    {k \in WithinTolerance : \A j \in WithinTolerance : Cost(k) <= Cost(j)}

PollFailed ==
    /\ pc \in {"pick", "wait"}
    /\ Len(calls') = Len(calls) + 1
    /\ Last(calls').op = "get"
    /\ Last(calls').res # "ok"

\* C22: a poll tick whose cluster read fails records no result: the results
\* stay as they are and the run ends in an error.
C22_NoReadyOnFailedPoll ==
    [][PollFailed => (results' = results /\ pc' = "done" /\ outcome' # "ok")]_vars

\* a poll failed in a trial that followed a recorded one
C22_Witness ==
    /\ pc = "done"
    /\ Len(results) >= 1
    /\ Len(calls) > 0
    /\ Last(calls).kind \in {"pods", "status"}
    /\ Last(calls).res = "error"

\* the pods a pod-counting wait lists, and the replica count it compares with
ListedPods ==
    IF variant = "Resourcev3" THEN PodsOfGen(latest_rs) ELSE PodsOfDeployment
WantedReplicas ==
    IF variant = "Resourcev3" THEN gens[latest_rs].replicas ELSE original.spec.replicas

\* the listed pods that report at least one container status, all of them ready
ReadyWithStatuses ==
    {g \in ListedPods : Len(gens[g].pod.statuses) > 0 /\ AllReady(gens[g].pod)}

\* C23: a wait that counts pods reports Ready only when the pods that report
\* container statuses, all ready, are enough by themselves: a pod without any
\* container status is not one of the ready pods counted.
C23_NoStatusesNotCounted ==
    [][(ReadyReported /\ variant \in {"Iterative", "Reaources5", "Resourcev3"})
          => Cardinality(ReadyWithStatuses) >= WantedReplicas]_vars

\* C24: with an orchestrator that rejects stale resource versions and no other
\* writer or failure (no injected fault), no write of the controller is rejected
\* as a conflict.
C24_NoSelfConflict ==
    (occ /\ faults = 0) => \A k \in Puts : calls[k].res # "conflict"

\* C25: every ready time recorded by a wait that has a timeout is at most the
\* timeout.
C25_ReadyTimeWithinTimeout ==
    variant \in ObjectVariants =>
        \A k \in Present(results) : results[k].t <= Timeout

====
